---- MODULE Spec2Model ----
(***************************************************************************)
(* Model of cqlengine/columns.py: the value manager, the Column descriptor *)
(* with its validation pipeline, the scalar column types and the container *)
(* columns (Set, List, Map).                                               *)
(*                                                                         *)
(* Python values are tagged records [t |-> tag, v |-> payload].  Strings   *)
(* are TLA+ strings; datetimes are microseconds since 1970-01-01T00:00:00; *)
(* floats are counted in halves (v = 3 is 1.5); a dict is the sequence of  *)
(* its (key, value) pairs in iteration order.                              *)
(***************************************************************************)
EXTENDS Integers, Sequences, FiniteSets, TLC

VARIABLES
    instance_counter,   \* Column.instance_counter (class attribute)
    columns,            \* every object Column.__init__ has run on, in order
    self,               \* the column the last call was made on
    call,               \* the last call: [op, arg]
    res,                \* its outcome: [ok, val, err]
    initial_value,      \* BaseValueManager.initial_value
    value,              \* BaseValueManager.value
    ctor_value,         \* history: the value the manager was constructed with
    pc,                 \* per thread: position inside Column.__init__
    position,           \* per thread: self.position of the column it builds
    loaded              \* per thread: the counter value read by "+= 1"

vars == <<instance_counter, columns, self, call, res,
          initial_value, value, ctor_value, pc, position, loaded>>

(***************************************************************************)
(* Bounds of the model.                                                    *)
(***************************************************************************)
MaxInt == 3         \* integer inputs are 0 .. MaxInt
MaxLen == 3         \* container inputs hold at most MaxLen elements
MaxCounter == 4     \* sequential constructions stop at this counter value
MaxThreads == 2     \* threads constructing columns concurrently
MaxColsPerThread == 2 \* descriptors each thread constructs

(***************************************************************************)
(* Python values.                                                          *)
(***************************************************************************)
None == [t |-> "none", v |-> 0]
PyInt(n) == [t |-> "int", v |-> n]
PyBool(b) == [t |-> "bool", v |-> b]
PyFloat(h) == [t |-> "float", v |-> h]
PyStr(s) == [t |-> "str", v |-> s]
PyDateTime(us) == [t |-> "datetime", v |-> us]
PyUUID(s) == [t |-> "uuid", v |-> s]
PyList(q) == [t |-> "list", v |-> q]
PyTuple(q) == [t |-> "tuple", v |-> q]
PySet(s) == [t |-> "set", v |-> s]
PyDict(q) == [t |-> "dict", v |-> q]
PyObject == [t |-> "object", v |-> 0]
Callable(name) == [t |-> "function", v |-> name]
KwAbsent == [t |-> "absent", v |-> 0]

\* outcome of a call: a returned value, or a raised exception
Return(v) == [ok |-> TRUE, val |-> v, err |-> "", msg |-> ""]
Raise(kind) == [ok |-> FALSE, val |-> None, err |-> kind, msg |-> ""]

GoodUuid == "123e4567-e89b-12d3-a456-426614174000"
JunkUuid == "123e4567-e89b-12d3-a456-426614174000-x"

(***************************************************************************)
(* Built-in conversions the columns rely on.                               *)
(***************************************************************************)
\* integer literals long() and float() parse among the strings of the model
IntegerLiterals == [s \in {ToString(n) : n \in 0..MaxInt} \cup {"42"} |->
                      IF s = "42" THEN 42
                      ELSE CHOOSE n \in 0..MaxInt : ToString(n) = s]

Trunc(num, den) == IF num >= 0 THEN num \div den ELSE -((-num) \div den)

\* long(val)
long(val) ==
    CASE val.t = "int" -> Return(val)
      [] val.t = "bool" -> Return(PyInt(IF val.v THEN 1 ELSE 0))
      [] val.t = "float" -> Return(PyInt(Trunc(val.v, 2)))
      [] val.t = "str" -> IF val.v \in DOMAIN IntegerLiterals
                            THEN Return(PyInt(IntegerLiterals[val.v]))
                            ELSE Raise("ValueError")
      [] OTHER -> Raise("TypeError")

\* float(val)
float(val) ==
    CASE val.t = "int" -> Return(PyFloat(2 * val.v))
      [] val.t = "bool" -> Return(PyFloat(IF val.v THEN 2 ELSE 0))
      [] val.t = "float" -> Return(val)
      [] val.t = "str" -> IF val.v \in DOMAIN IntegerLiterals
                            THEN Return(PyFloat(2 * IntegerLiterals[val.v]))
                            ELSE IF val.v = "1.5" THEN Return(PyFloat(3))
                            ELSE Raise("ValueError")
      [] OTHER -> Raise("TypeError")

\* bool(val): Python truthiness
bool(val) ==
    CASE val.t = "none" -> FALSE
      [] val.t = "bool" -> val.v
      [] val.t \in {"int", "float"} -> val.v # 0
      [] val.t = "str" -> val.v # ""
      [] val.t \in {"list", "tuple", "dict"} -> val.v # <<>>
      [] val.t = "set" -> val.v # {}
      [] OTHER -> TRUE

\* value == other for Python values: numbers compare by numeric value
PyEq(a, b) ==
    LET Num(x) == CASE x.t = "int" -> 2 * x.v
                    [] x.t = "bool" -> IF x.v THEN 2 ELSE 0
                    [] x.t = "float" -> x.v
                    [] OTHER -> 0
        IsNum(x) == x.t \in {"int", "bool", "float"}
    IN  IF IsNum(a) /\ IsNum(b) THEN Num(a) = Num(b) ELSE a = b

(***************************************************************************)
(* json.dumps / json.loads.                                                *)
(***************************************************************************)
RECURSIVE JsonEncodable(_)
JsonEncodable(x) ==
    CASE x.t \in {"none", "bool", "int", "float", "str"} -> TRUE
      [] x.t \in {"list", "tuple"} ->
            \A i \in 1..Len(x.v) : JsonEncodable(x.v[i])
      [] x.t = "dict" ->
            \A i \in 1..Len(x.v) :
                /\ x.v[i][1].t \in {"str", "int"}
                /\ JsonEncodable(x.v[i][2])
      [] OTHER -> FALSE

RECURSIVE Join(_, _)
Join(parts, sep) ==
    IF parts = <<>> THEN ""
    ELSE IF Len(parts) = 1 THEN parts[1]
    ELSE parts[1] \o sep \o Join(Tail(parts), sep)

\* json.dumps(x, separators=(',', ':')) for an encodable x
RECURSIVE JsonText(_)
JsonText(x) ==
    CASE x.t = "none" -> "null"
      [] x.t = "bool" -> IF x.v THEN "true" ELSE "false"
      [] x.t = "int" -> ToString(x.v)
      [] x.t = "float" -> ToString(x.v \div 2) \o
                             (IF x.v % 2 = 0 THEN ".0" ELSE ".5")
      [] x.t = "str" -> "\"" \o x.v \o "\""
      [] x.t \in {"list", "tuple"} ->
            "[" \o Join([i \in 1..Len(x.v) |-> JsonText(x.v[i])], ",") \o "]"
      [] x.t = "dict" ->
            "{" \o Join([i \in 1..Len(x.v) |->
                           "\"" \o (IF x.v[i][1].t = "str" THEN x.v[i][1].v
                                    ELSE ToString(x.v[i][1].v)) \o "\":"
                           \o JsonText(x.v[i][2])], ",") \o "}"

\* the structured value a decoder builds from the encoding of x:
\* arrays decode to lists, object keys to strings
RECURSIVE JsonNative(_)
JsonNative(x) ==
    CASE x.t = "tuple" \/ x.t = "list" ->
            PyList([i \in 1..Len(x.v) |-> JsonNative(x.v[i])])
      [] x.t = "dict" ->
            PyDict([i \in 1..Len(x.v) |->
                      <<PyStr(IF x.v[i][1].t = "str" THEN x.v[i][1].v
                              ELSE ToString(x.v[i][1].v)),
                        JsonNative(x.v[i][2])>>])
      [] OTHER -> x

(***************************************************************************)
(* The classes: db_type class attributes and the subclass relation.        *)
(***************************************************************************)
ScalarClasses == {"Column", "Bytes", "Ascii", "Text", "JSON", "Integer",
                  "DateTime", "UUID", "TimeUUID", "Boolean", "Float",
                  "Decimal", "Counter"}
ContainerClasses == {"BaseContainerColumn", "Set", "List", "Map"}
\* issubclass(cls, Column); "int" stands for a class that is no Column
ColumnClasses == ScalarClasses \cup ContainerClasses

\* cls.db_type, for a Column class
ClassDbType(cls) ==
    CASE cls = "Bytes" -> PyStr("blob")
      [] cls = "Ascii" -> PyStr("ascii")
      [] cls \in {"Text", "JSON"} -> PyStr("text")
      [] cls = "Integer" -> PyStr("int")
      [] cls = "DateTime" -> PyStr("timestamp")
      [] cls = "UUID" -> PyStr("uuid")
      [] cls = "TimeUUID" -> PyStr("timeuuid")
      [] cls = "Boolean" -> PyStr("boolean")
      [] cls = "Float" -> PyStr("double")
      [] cls = "Decimal" -> PyStr("decimal")
      [] cls = "Set" -> PyStr("set<{}>")
      [] cls = "List" -> PyStr("list<{}>")
      [] cls = "Map" -> PyStr("map<{}, {}>")
      [] OTHER -> None    \* Column, Counter, BaseContainerColumn

(***************************************************************************)
(* Construction.  Keyword arguments are a record; KwAbsent marks one that  *)
(* the caller did not pass.                                                *)
(***************************************************************************)
NoKwargs == [primary_key |-> KwAbsent, default |-> KwAbsent,
             required |-> KwAbsent, min_length |-> KwAbsent,
             max_length |-> KwAbsent, strict |-> KwAbsent,
             double_precision |-> KwAbsent]

Get(kw, name, dflt) == IF kw[name] = KwAbsent THEN dflt ELSE kw[name]

\* a fresh object of class cls, before any __init__ has run on it
Blank(cls) ==
    [cls |-> cls, db_type |-> ClassDbType(cls), primary_key |-> None,
     default |-> None, required |-> None, position |-> None,
     min_length |-> None, max_length |-> None, strict |-> None,
     value_type |-> "", value_col |-> None, key_type |-> "", key_col |-> None]

\* outcome of a constructor call: the object (when it succeeds) and the
\* objects Column.__init__ ran on, in order, whether it succeeds or not
Built(obj, inits) == [status |-> "ok", msg |-> "", obj |-> obj, inits |-> inits]
Failed(kind, msg, inits) ==
    [status |-> kind, msg |-> msg, obj |-> None, inits |-> inits]

\* Column.__init__: the assignments to self
Column_init(obj, kw, counter) ==
    [obj EXCEPT !.primary_key = Get(kw, "primary_key", PyBool(FALSE)),
                !.default = Get(kw, "default", None),
                !.required = Get(kw, "required", PyBool(TRUE)),
                !.position = PyInt(counter)]

\* a variant of the counter update that loses the increment
CounterAfter_Lost(counter, inits) == counter

\* Column.instance_counter after Column.__init__ ran on each of inits:
\* every run ends with "Column.instance_counter += 1"
CounterAfter(counter, inits) == counter + Len(inits)

\* Text.__init__ (JSON inherits it)
Text_init(obj, kw, counter) ==
    Column_init(
        [obj EXCEPT
           !.min_length = Get(kw, "min_length",
                              IF bool(Get(kw, "required", PyBool(TRUE)))
                                THEN PyInt(1) ELSE None),
           !.max_length = Get(kw, "max_length", None)],
        kw, counter)

\* UUID.__init__
UUID_init(obj, kw, counter) ==
    Column_init(obj, [kw EXCEPT !.default = Get(kw, "default", Callable("uuid4"))],
                counter)

\* TimeUUID.__init__
TimeUUID_init(obj, kw, counter) ==
    UUID_init(obj, [kw EXCEPT !.default = Get(kw, "default", Callable("uuid1"))],
              counter)

\* Float.__init__
Float_init(obj, kw, counter) ==
    Column_init(
        [obj EXCEPT !.db_type =
            IF bool(Get(kw, "double_precision", PyBool(TRUE)))
              THEN PyStr("double") ELSE PyStr("float")],
        kw, counter)

\* cls(**kw) for a scalar column class
ScalarNew(cls, kw, counter) ==
    CASE cls \in {"Text", "JSON"} ->
            LET o == Text_init(Blank(cls), kw, counter) IN Built(o, <<o>>)
      [] cls = "UUID" ->
            LET o == UUID_init(Blank(cls), kw, counter) IN Built(o, <<o>>)
      [] cls = "TimeUUID" ->
            LET o == TimeUUID_init(Blank(cls), kw, counter) IN Built(o, <<o>>)
      [] cls = "Float" ->
            LET o == Float_init(Blank(cls), kw, counter) IN Built(o, <<o>>)
      [] cls = "Counter" ->
            \* Counter.__init__: the base initialiser runs, then it raises
            LET o == Column_init(Blank(cls), kw, counter)
            IN  Failed("NotImplementedError", "", <<o>>)
      [] OTHER ->
            LET o == Column_init(Blank(cls), kw, counter) IN Built(o, <<o>>)

\* cls() with no arguments, as the containers call it for their elements
NewNoArgs(cls, counter) ==
    IF cls \in ContainerClasses
      THEN Failed("TypeError", "missing argument value_type", <<>>)
    ELSE IF cls \in ScalarClasses THEN ScalarNew(cls, NoKwargs, counter)
    ELSE Built(PyObject, <<>>)

\* BaseContainerColumn.__init__
BaseContainerColumn_init(obj, value_type, kw, counter) ==
    IF value_type \notin ColumnClasses
      THEN Failed("ValidationError", "value_type must be a column class", <<>>)
    ELSE IF value_type \in ContainerClasses
      THEN Failed("ValidationError", "container types cannot be nested", <<>>)
    ELSE IF ClassDbType(value_type) = None
      THEN Failed("ValidationError",
                  "value_type cannot be an abstract column type", <<>>)
    ELSE LET vc == NewNoArgs(value_type, counter)
         IN  IF vc.status # "ok" THEN Failed(vc.status, vc.msg, vc.inits)
             ELSE LET o == Column_init(
                             [obj EXCEPT !.value_type = value_type,
                                         !.value_col = vc.obj],
                             kw, CounterAfter(counter, vc.inits))
                  IN  Built(o, vc.inits \o <<o>>)

\* Set.__init__
Set_init(obj, value_type, kw, counter) ==
    BaseContainerColumn_init(
        [obj EXCEPT !.strict = Get(kw, "strict", PyBool(TRUE))],
        value_type, kw, counter)

\* Map.__init__
Map_init(obj, key_type, value_type, kw, counter) ==
    IF value_type \notin ColumnClasses
      THEN Failed("ValidationError", "key_type must be a column class", <<>>)
    ELSE IF value_type \in ContainerClasses
      THEN Failed("ValidationError", "container types cannot be nested", <<>>)
    ELSE IF key_type \notin ColumnClasses
      THEN Failed("AttributeError", "no attribute db_type", <<>>)
    ELSE IF ClassDbType(key_type) = None
      THEN Failed("ValidationError",
                  "key_type cannot be an abstract column type", <<>>)
    ELSE LET kc == NewNoArgs(key_type, counter)
         IN  IF kc.status # "ok" THEN Failed(kc.status, kc.msg, kc.inits)
             ELSE LET b == BaseContainerColumn_init(
                             [obj EXCEPT !.key_type = key_type,
                                         !.key_col = kc.obj],
                             value_type, kw, CounterAfter(counter, kc.inits))
                  IN  IF b.status # "ok"
                        THEN Failed(b.status, b.msg, kc.inits \o b.inits)
                      ELSE Built(b.obj, kc.inits \o b.inits)

\* cls(*args, **kw): args are the element classes a container is given
New(cls, args, kw, counter) ==
    CASE cls = "Set" -> Set_init(Blank(cls), args[1], kw, counter)
      [] cls \in {"List", "BaseContainerColumn"} ->
            BaseContainerColumn_init(Blank(cls), args[1], kw, counter)
      [] cls = "Map" -> Map_init(Blank(cls), args[1], args[2], kw, counter)
      [] OTHER -> ScalarNew(cls, kw, counter)

(***************************************************************************)
(* Inputs of the model: the values calls are made with.                    *)
(***************************************************************************)
\* elements container inputs are built from
ElemInputs == {PyInt(n) : n \in 1..MaxInt} \cup {PyStr("1")}

RECURSIVE SeqsUpTo(_, _)
SeqsUpTo(S, n) ==
    IF n = 0 THEN {<<>>}
    ELSE LET shorter == SeqsUpTo(S, n - 1)
         IN  shorter \cup {Append(q, e) : q \in {r \in shorter : Len(r) = n - 1},
                                          e \in S}

ElemSeqs == SeqsUpTo(ElemInputs, MaxLen)

DictInputs ==
    {PyDict(<<>>),
     PyDict(<< <<PyStr("a"), PyInt(1)>> >>),
     PyDict(<< <<PyStr("1"), PyInt(1)>>, <<PyInt(1), PyInt(2)>> >>),
     PyDict(<< <<PyInt(1), PyInt(2)>>, <<PyStr("1"), PyInt(1)>> >>),
     PyDict(<< <<PyStr("a"), PyStr("x")>> >>)}

ContainerInputs ==
    {PyList(q) : q \in ElemSeqs} \cup {PyTuple(q) : q \in ElemSeqs}
    \cup {PySet(e) : e \in {x \in SUBSET ElemInputs : Cardinality(x) <= MaxLen}}
    \cup DictInputs

ScalarInputs ==
    {None, PyBool(TRUE), PyBool(FALSE), PyFloat(3), PyObject,
     PyDateTime(0), PyDateTime(1000000), PyDateTime(1500),
     PyUUID(GoodUuid)}
    \cup {PyInt(n) : n \in 0..MaxInt} \cup {PyInt(1000)}
    \cup {PyStr(x) : x \in {"", "a", "ab", "abc", "1", "42", "1.5", "null",
                            "[1,2]", "{\"a\":1}", "not-a-uuid",
                            GoodUuid, JunkUuid}}

\* a few containers for the scalar columns, a few scalars for the containers
FewContainers == {PyList(<<PyInt(1), PyInt(2)>>), PyTuple(<<PyInt(1), PyInt(2)>>),
                  PySet({PyInt(1)}), PyDict(<< <<PyStr("a"), PyInt(1)>> >>),
                  PyDict(<< <<PyInt(1), PyInt(2)>> >>)}
FewScalars == {None, PyInt(1), PyStr("a")}

\* identifiers uuid4() / uuid1() may produce
RandomUuids == {"00000000-0000-4000-8000-000000000001",
                "00000000-0000-4000-8000-000000000002"}

(***************************************************************************)
(* json.loads over the documents of the model.                             *)
(***************************************************************************)
JsonTable ==
    {<<JsonText(x), JsonNative(x)>> :
        x \in {y \in ScalarInputs \cup FewContainers : JsonEncodable(y)}}

\* json.loads(text)
JsonLoads(text) ==
    IF \E e \in JsonTable : e[1] = text
      THEN Return((CHOOSE e \in JsonTable : e[1] = text)[2])
      ELSE Raise("ValueError")

(***************************************************************************)
(* Column: the shared pipeline.                                            *)
(***************************************************************************)
\* Column.has_default
has_default(col) == col.default # None

\* calling a default producer; rnd is what the random generators yield
Invoke(f, rnd) ==
    CASE f.v \in {"uuid4", "uuid1"} -> PyUUID(rnd)
      [] OTHER -> PyStr("2")

\* Column.get_default
get_default(col, rnd) ==
    IF has_default(col)
      THEN IF col.default.t = "function" THEN Invoke(col.default, rnd)
           ELSE col.default
      ELSE None

\* a variant of Column.validate that tests `required` before the default
Column_validate_RequiredFirst(col, val, rnd) ==
    IF val = None
      THEN IF bool(col.required) THEN Raise("ValidationError")
           ELSE IF has_default(col) THEN Return(get_default(col, rnd))
           ELSE Return(val)
      ELSE Return(val)

\* Column.validate
Column_validate(col, val, rnd) ==
    IF val = None
      THEN IF has_default(col) THEN Return(get_default(col, rnd))
           ELSE IF bool(col.required) THEN Raise("ValidationError")
           ELSE Return(val)
      ELSE Return(val)

\* Column.to_python
Column_to_python(col, val) == Return(val)

\* Column.to_database
Column_to_database(col, val, rnd) ==
    IF val = None /\ has_default(col) THEN Return(get_default(col, rnd))
    ELSE Return(val)

(***************************************************************************)
(* Scalar variants.  Each X_checks is what X.validate does with the value  *)
(* the base step returned.                                                 *)
(***************************************************************************)
Text_checks(col, val) ==
    IF val = None THEN Return(None)
    ELSE IF val.t # "str" THEN Raise("ValidationError")
    ELSE IF bool(col.max_length) /\ Len(val.v) > col.max_length.v
      THEN Raise("ValidationError")
    ELSE IF bool(col.min_length) /\ Len(val.v) < col.min_length.v
      THEN Raise("ValidationError")
    ELSE Return(val)

\* Text.validate
Text_validate(col, val, rnd) ==
    LET b == Column_validate(col, val, rnd)
    IN  IF b.ok THEN Text_checks(col, b.val) ELSE b

\* JSON.validate: json.dumps(value) decides, nothing else is consulted
JSON_validate(col, val, rnd) ==
    IF JsonEncodable(val) THEN Return(val) ELSE Raise("ValidationError")

\* JSON.to_python
JSON_to_python(col, val) ==
    IF val = None THEN Return(None)
    ELSE IF val.t = "str" THEN JsonLoads(val.v)
    ELSE Return(val)

\* JSON.to_database
JSON_to_database(col, val, rnd) ==
    LET x == IF val = None /\ has_default(col) THEN get_default(col, rnd) ELSE val
    IN  IF JsonEncodable(x) THEN Return(PyStr(JsonText(x))) ELSE Raise("TypeError")

Integer_checks(col, val) ==
    IF val = None THEN Return(None)
    ELSE IF long(val).ok THEN long(val) ELSE Raise("ValidationError")

\* Integer.validate (to_python and to_database are the same call)
Integer_validate(col, val, rnd) ==
    LET b == Column_validate(col, val, rnd)
    IN  IF b.ok THEN Integer_checks(col, b.val) ELSE b

Float_checks(col, val) ==
    IF val = None THEN Return(None)
    ELSE IF float(val).ok THEN float(val) ELSE Raise("ValidationError")

\* Float.validate (to_python and to_database are the same call)
Float_validate(col, val, rnd) ==
    LET b == Column_validate(col, val, rnd)
    IN  IF b.ok THEN Float_checks(col, b.val) ELSE b

\* DateTime.to_python: datetime.utcfromtimestamp(value) reads seconds
DateTime_to_python(col, val) ==
    IF val.t = "datetime" THEN Return(val)
    ELSE IF val.t \in {"int", "bool"}
      THEN Return(PyDateTime(long(val).val.v * 1000000))
    ELSE IF val.t = "float" THEN Return(PyDateTime(val.v * 500000))
    ELSE Raise("TypeError")

\* DateTime.to_database: milliseconds since the epoch, truncated
DateTime_to_database(col, val, rnd) ==
    LET x == Column_to_database(col, val, rnd).val
    IN  IF x.t # "datetime" THEN Raise("ValidationError")
        ELSE Return(PyInt(Trunc(x.v * 1000, 1000000)))

\* re_uuid.match(s): the pattern matches at the start of s
ReUuidMatch(s) == s \in {GoodUuid, JunkUuid} \cup RandomUuids

UUID_checks(col, val) ==
    IF val = None THEN Return(None)
    ELSE IF val.t = "uuid" THEN Return(val)
    ELSE IF val.t # "str" THEN Raise("TypeError")
    ELSE IF ~ReUuidMatch(val.v) THEN Raise("ValidationError")
    ELSE IF val.v = JunkUuid THEN Raise("ValueError")
    ELSE Return(PyUUID(val.v))

\* UUID.validate (TimeUUID inherits it)
UUID_validate(col, val, rnd) ==
    LET b == Column_validate(col, val, rnd)
    IN  IF b.ok THEN UUID_checks(col, b.val) ELSE b

\* Boolean.to_python and Boolean.to_database
Boolean_convert(col, val) == Return(PyBool(bool(val)))

\* col.validate(val) for a scalar column
ScalarValidate(col, val, rnd) ==
    CASE col.cls = "Text" -> Text_validate(col, val, rnd)
      [] col.cls = "JSON" -> JSON_validate(col, val, rnd)
      [] col.cls = "Integer" -> Integer_validate(col, val, rnd)
      [] col.cls = "Float" -> Float_validate(col, val, rnd)
      [] col.cls \in {"UUID", "TimeUUID"} -> UUID_validate(col, val, rnd)
      [] OTHER -> Column_validate(col, val, rnd)

\* col.to_python(val) for a scalar column
ScalarToPython(col, val, rnd) ==
    CASE col.cls = "JSON" -> JSON_to_python(col, val)
      [] col.cls = "Integer" -> Integer_validate(col, val, rnd)
      [] col.cls = "Float" -> Float_validate(col, val, rnd)
      [] col.cls = "DateTime" -> DateTime_to_python(col, val)
      [] col.cls = "Boolean" -> Boolean_convert(col, val)
      [] OTHER -> Column_to_python(col, val)

\* col.to_database(val) for a scalar column
ScalarToDatabase(col, val, rnd) ==
    CASE col.cls = "JSON" -> JSON_to_database(col, val, rnd)
      [] col.cls = "Integer" -> Integer_validate(col, val, rnd)
      [] col.cls = "Float" -> Float_validate(col, val, rnd)
      [] col.cls = "DateTime" -> DateTime_to_database(col, val, rnd)
      [] col.cls = "Boolean" -> Boolean_convert(col, val)
      [] OTHER -> Column_to_database(col, val, rnd)

(***************************************************************************)
(* Container columns.                                                      *)
(***************************************************************************)
\* the elements of a collection in iteration order (a set's order is the
\* order of the sequence chosen for it below)
RECURSIVE SetToSeq(_)
SetToSeq(S) ==
    IF S = {} THEN <<>>
    ELSE LET e == CHOOSE x \in S : TRUE IN <<e>> \o SetToSeq(S \ {e})

\* iterating a dict yields its keys, iterating a string its characters
\* (the strings iterated in this model have at most one character)
Iterable(val) == val.t \in {"set", "list", "tuple", "dict", "str"}
Items(val) ==
    CASE val.t = "set" -> SetToSeq(val.v)
      [] val.t = "dict" -> [i \in 1..Len(val.v) |-> val.v[i][1]]
      [] val.t = "str" -> IF val.v = "" THEN <<>> ELSE <<val>>
      [] OTHER -> val.v

\* the outcomes of validating each element with the element column
ElementResults(ecol, q, rnd) == [i \in 1..Len(q) |-> ScalarValidate(ecol, q[i], rnd)]

\* the first exception a comprehension over the results raises, if any
FirstFailure(rs) ==
    LET bad == {i \in 1..Len(rs) : ~rs[i].ok}
    IN  rs[CHOOSE i \in bad : \A j \in bad : i <= j]

AllOk(rs) == \A i \in 1..Len(rs) : rs[i].ok

\* a variant of the Set fold that keeps only the first validated element
Set_checks_First(col, val, rnd) ==
    IF val = None THEN Return(None)
    ELSE IF val.t \notin (IF bool(col.strict) THEN {"set"}
                          ELSE {"set", "list", "tuple"})
      THEN Raise("ValidationError")
    ELSE LET rs == ElementResults(col.value_col, Items(val), rnd)
         IN  IF ~AllOk(rs) THEN FirstFailure(rs)
             ELSE Return(PySet({rs[i].val : i \in {j \in 1..Len(rs) : j = 1}}))

Set_checks(col, val, rnd) ==
    IF val = None THEN Return(None)
    ELSE IF val.t \notin (IF bool(col.strict) THEN {"set"}
                          ELSE {"set", "list", "tuple"})
      THEN Raise("ValidationError")
    ELSE LET rs == ElementResults(col.value_col, Items(val), rnd)
         IN  IF ~AllOk(rs) THEN FirstFailure(rs)
             ELSE Return(PySet({rs[i].val : i \in 1..Len(rs)}))

\* Set.validate
Set_validate(col, val, rnd) ==
    LET b == Column_validate(col, val, rnd)
    IN  IF b.ok THEN Set_checks(col, b.val, rnd) ELSE b

\* a ContainerQuoter holding an already converted collection
Quoter(kind, v) == [t |-> "quoter", v |-> v, kind |-> kind]

\* Set.to_database
Set_to_database(col, val, rnd) ==
    IF ~Iterable(val) THEN Raise("TypeError")
    ELSE LET q == Items(val)
             rs == [i \in 1..Len(q) |-> ScalarToDatabase(col.value_col, q[i], rnd)]
         IN  IF ~AllOk(rs) THEN FirstFailure(rs)
             ELSE Return(Quoter("Set", {rs[i].val : i \in 1..Len(rs)}))

List_checks(col, val, rnd) ==
    IF val = None THEN Return(None)
    ELSE IF val.t \notin {"set", "list", "tuple"} THEN Raise("ValidationError")
    ELSE LET rs == ElementResults(col.value_col, Items(val), rnd)
         IN  IF ~AllOk(rs) THEN FirstFailure(rs)
             ELSE Return(PyList([i \in 1..Len(rs) |-> rs[i].val]))

\* List.validate
List_validate(col, val, rnd) ==
    LET b == Column_validate(col, val, rnd)
    IN  IF b.ok THEN List_checks(col, b.val, rnd) ELSE b

\* a variant of List.to_database that converts the elements back to front
List_to_database_Reversed(col, val, rnd) ==
    IF ~Iterable(val) THEN Raise("TypeError")
    ELSE LET q == Items(val)
             rs == [i \in 1..Len(q) |->
                      ScalarToDatabase(col.value_col, q[Len(q) + 1 - i], rnd)]
         IN  IF ~AllOk(rs) THEN FirstFailure(rs)
             ELSE Return(Quoter("List", [i \in 1..Len(rs) |-> rs[i].val]))

\* List.to_database
List_to_database(col, val, rnd) ==
    IF ~Iterable(val) THEN Raise("TypeError")
    ELSE LET q == Items(val)
             rs == [i \in 1..Len(q) |-> ScalarToDatabase(col.value_col, q[i], rnd)]
         IN  IF ~AllOk(rs) THEN FirstFailure(rs)
             ELSE Return(Quoter("List", [i \in 1..Len(rs) |-> rs[i].val]))

\* cql_quote(term): strings and booleans in single quotes, the rest as str(term)
cql_quote(term) ==
    CASE term.t = "str" -> "'" \o term.v \o "'"
      [] term.t = "bool" -> IF term.v THEN "'True'" ELSE "'False'"
      [] term.t = "int" -> ToString(term.v)
      [] term.t = "float" -> JsonText(term)
      [] term.t = "none" -> "None"
      [] OTHER -> "<object>"

\* List.Quoter.__str__
List_Quoter_str(q) ==
    "[" \o Join([i \in 1..Len(q.v) |-> cql_quote(q.v[i])], ", ") \o "]"

\* d[k] = v on a dict kept as its sequence of pairs
RECURSIVE DictPut(_, _, _)
DictPut(d, k, v) ==
    IF d = <<>> THEN << <<k, v>> >>
    ELSE IF PyEq(Head(d)[1], k) THEN << <<Head(d)[1], v>> >> \o Tail(d)
    ELSE <<Head(d)>> \o DictPut(Tail(d), k, v)

RECURSIVE DictFromPairs(_)
DictFromPairs(ps) ==
    IF ps = <<>> THEN <<>>
    ELSE LET last == ps[Len(ps)]
         IN  DictPut(DictFromPairs(SubSeq(ps, 1, Len(ps) - 1)), last[1], last[2])

Map_checks(col, val, rnd) ==
    IF val = None THEN Return(None)
    ELSE IF val.t # "dict" THEN Raise("ValidationError")
    ELSE LET ks == [i \in 1..Len(val.v) |->
                      ScalarValidate(col.key_col, val.v[i][1], rnd)]
             vs == [i \in 1..Len(val.v) |->
                      ScalarValidate(col.value_col, val.v[i][2], rnd)]
             rs == [i \in 1..(2 * Len(val.v)) |->
                      IF i % 2 = 1 THEN ks[(i + 1) \div 2] ELSE vs[i \div 2]]
         IN  IF ~AllOk(rs) THEN FirstFailure(rs)
             ELSE Return(PyDict(DictFromPairs(
                     [i \in 1..Len(val.v) |-> <<ks[i].val, vs[i].val>>])))

\* Map.validate
Map_validate(col, val, rnd) ==
    LET b == Column_validate(col, val, rnd)
    IN  IF b.ok THEN Map_checks(col, b.val, rnd) ELSE b

\* Map.to_python
Map_to_python(col, val, rnd) ==
    IF val = None THEN Return(None)
    ELSE IF val.t # "dict" THEN Raise("AttributeError")
    ELSE LET ks == [i \in 1..Len(val.v) |->
                      ScalarToPython(col.key_col, val.v[i][1], rnd)]
             vs == [i \in 1..Len(val.v) |->
                      ScalarToPython(col.value_col, val.v[i][2], rnd)]
             rs == [i \in 1..(2 * Len(val.v)) |->
                      IF i % 2 = 1 THEN ks[(i + 1) \div 2] ELSE vs[i \div 2]]
         IN  IF ~AllOk(rs) THEN FirstFailure(rs)
             ELSE Return(PyDict(DictFromPairs(
                     [i \in 1..Len(val.v) |-> <<ks[i].val, vs[i].val>>])))

\* Map.to_database
Map_to_database(col, val, rnd) ==
    IF val.t # "dict" THEN Raise("AttributeError")
    ELSE LET ks == [i \in 1..Len(val.v) |->
                      ScalarToDatabase(col.key_col, val.v[i][1], rnd)]
             vs == [i \in 1..Len(val.v) |->
                      ScalarToDatabase(col.value_col, val.v[i][2], rnd)]
             rs == [i \in 1..(2 * Len(val.v)) |->
                      IF i % 2 = 1 THEN ks[(i + 1) \div 2] ELSE vs[i \div 2]]
         IN  IF ~AllOk(rs) THEN FirstFailure(rs)
             ELSE Return(Quoter("Map", DictFromPairs(
                     [i \in 1..Len(val.v) |-> <<ks[i].val, vs[i].val>>])))

(***************************************************************************)
(* Dispatch: col.validate / col.to_python / col.to_database.               *)
(***************************************************************************)
Validate(col, val, rnd) ==
    CASE col.cls = "Set" -> Set_validate(col, val, rnd)
      [] col.cls = "List" -> List_validate(col, val, rnd)
      [] col.cls = "Map" -> Map_validate(col, val, rnd)
      [] OTHER -> ScalarValidate(col, val, rnd)

ToPython(col, val, rnd) ==
    CASE col.cls = "Map" -> Map_to_python(col, val, rnd)
      [] col.cls \in {"Set", "List"} -> Column_to_python(col, val)
      [] OTHER -> ScalarToPython(col, val, rnd)

ToDatabase(col, val, rnd) ==
    CASE col.cls = "Set" -> Set_to_database(col, val, rnd)
      [] col.cls = "List" -> List_to_database(col, val, rnd)
      [] col.cls = "Map" -> Map_to_database(col, val, rnd)
      [] OTHER -> ScalarToDatabase(col, val, rnd)

(***************************************************************************)
(* Calls on one constructed column (specification SpecCodec).              *)
(***************************************************************************)
NoCall == [op |-> "none", arg |-> None, rnd |-> ""]
NoResult == [ok |-> TRUE, val |-> None, err |-> "none", msg |-> ""]

Threads == 1..MaxThreads

\* the parts of the state a specification does not use
ManagerIdle ==
    /\ initial_value = None
    /\ value = None
    /\ ctor_value = None
ThreadsIdle ==
    /\ pc = [t \in Threads |-> "idle"]
    /\ position = [t \in Threads |-> <<>>]
    /\ loaded = [t \in Threads |-> 0]

\* the keyword arguments the columns of this specification are built with
CodecKwargs(cls) ==
    {[NoKwargs EXCEPT !.required = r, !.default = d, !.min_length = mn,
                      !.max_length = mx, !.strict = st, !.double_precision = dp] :
        r \in {KwAbsent, PyBool(TRUE), PyBool(FALSE)},
        d \in IF cls \in ContainerClasses
                THEN {KwAbsent, PySet({PyInt(1)}), Callable("producer")}
                ELSE {KwAbsent, None, PyInt(1), Callable("producer")},
        mn \in IF cls \in {"Text", "JSON"} THEN {KwAbsent, PyInt(2)} ELSE {KwAbsent},
        mx \in IF cls \in {"Text", "JSON"} THEN {KwAbsent, PyInt(1)} ELSE {KwAbsent},
        st \in IF cls = "Set" THEN {KwAbsent, PyBool(FALSE)} ELSE {KwAbsent},
        dp \in IF cls = "Float" THEN {KwAbsent, PyBool(FALSE)} ELSE {KwAbsent}}

ElementClasses == {"Integer", "Text"}

CodecArgs(cls) ==
    CASE cls \in {"Set", "List"} -> {<<e>> : e \in ElementClasses}
      [] cls = "Map" -> {<<k, e>> : k \in ElementClasses, e \in ElementClasses}
      [] OTHER -> {<<>>}

CodecClasses == (ScalarClasses \ {"Counter"}) \cup {"Set", "List", "Map"}

\* the values a call on col is made with.  A set handed to a List column has
\* at most one element, so that no iteration order has to be chosen for it.
InputsFor(col) ==
    CASE col.cls = "Set" -> ContainerInputs \cup FewScalars
      [] col.cls = "List" ->
            {x \in ContainerInputs : x.t = "set" => Cardinality(x.v) <= 1}
            \cup FewScalars
      [] col.cls = "Map" -> DictInputs \cup FewContainers \cup FewScalars
      [] OTHER -> ScalarInputs \cup FewContainers

\* what a call of the default producer may return
RndFor(col) ==
    IF col.default.t = "function" /\ col.default.v \in {"uuid4", "uuid1"}
      THEN RandomUuids ELSE {""}

\* one column is constructed in a fresh process and one input is picked;
\* the calls below are then made on that column with that input
InitCodec ==
    /\ \E cls \in CodecClasses :
         \E args \in CodecArgs(cls), kw \in CodecKwargs(cls) :
            \E b \in {New(cls, args, kw, 0)} :
                /\ b.status = "ok"
                /\ self = b.obj
                /\ columns = b.inits
                /\ instance_counter = CounterAfter(0, b.inits)
    /\ \E v \in InputsFor(self), rnd \in RndFor(self) :
         call = [op |-> "none", arg |-> v, rnd |-> rnd]
    /\ res = NoResult
    /\ ManagerIdle
    /\ ThreadsIdle

CallValidate ==
    /\ call' = [call EXCEPT !.op = "validate"]
    /\ res' = Validate(self, call.arg, call.rnd)
    /\ UNCHANGED <<instance_counter, columns, self, initial_value, value,
                   ctor_value, pc, position, loaded>>

CallToDatabase ==
    /\ call' = [call EXCEPT !.op = "to_database"]
    /\ res' = ToDatabase(self, call.arg, call.rnd)
    /\ UNCHANGED <<instance_counter, columns, self, initial_value, value,
                   ctor_value, pc, position, loaded>>

CallToPython ==
    /\ call' = [call EXCEPT !.op = "to_python"]
    /\ res' = ToPython(self, call.arg, call.rnd)
    /\ UNCHANGED <<instance_counter, columns, self, initial_value, value,
                   ctor_value, pc, position, loaded>>

\* str(quoter) on the Quoter that List.to_database just returned
CallStr ==
    /\ call.op = "to_database"
    /\ res.ok
    /\ res.val.t = "quoter"
    /\ res.val.kind = "List"
    /\ call' = [call EXCEPT !.op = "str"]
    /\ res' = Return(PyStr(List_Quoter_str(res.val)))
    /\ UNCHANGED <<instance_counter, columns, self, initial_value, value,
                   ctor_value, pc, position, loaded>>

\* to_python(to_database(x)) for a non-empty x that validate accepts
CallRoundTrip ==
    /\ call.arg # None
    /\ Validate(self, call.arg, call.rnd).ok
    /\ call' = [call EXCEPT !.op = "roundtrip"]
    /\ res' = LET d == ToDatabase(self, call.arg, call.rnd)
              IN  IF d.ok THEN ToPython(self, d.val, call.rnd) ELSE d
    /\ UNCHANGED <<instance_counter, columns, self, initial_value, value,
                   ctor_value, pc, position, loaded>>

NextCodec ==
    \/ CallValidate
    \/ CallToDatabase
    \/ CallToPython
    \/ CallStr
    \/ CallRoundTrip

SpecCodec == InitCodec /\ [][NextCodec]_vars

(***************************************************************************)
(* Properties of the calls.                                                *)
(***************************************************************************)
\* the classes that inherit Column.validate unchanged
BaseValidateClasses == {"Column", "Bytes", "Ascii", "DateTime", "Boolean", "Decimal"}

\* C1: on a column that uses the base validate, validate(None) returns the
\* resolved default whenever one is configured (the producer's result for a
\* callable default), whatever `required` is; without a default it raises
\* ValidationError when required and returns None otherwise; a value other
\* than None is returned unchanged.
C1_BaseValidate ==
    (call.op = "validate" /\ self.cls \in BaseValidateClasses) =>
        IF call.arg = None
          THEN IF self.default # None
                 THEN res = Return(IF self.default.t = "function"
                                     THEN PyStr("2") ELSE self.default)
               ELSE IF self.required = PyBool(TRUE)
                 THEN ~res.ok /\ res.err = "ValidationError"
               ELSE res = Return(None)
          ELSE res = Return(call.arg)

\* C1 witness: a required column with a default was asked to validate None
\* and answered with the default.
C1_Witness ==
    /\ call.op = "validate"
    /\ self.cls = "Column"
    /\ call.arg = None
    /\ self.required = PyBool(TRUE)
    /\ self.default = PyInt(1)
    /\ res = Return(PyInt(1))

\* C2: for a DateTime column, to_python(to_database(x)) of an instant x is
\* the same instant (the DateTime case of the round-trip claim).
C2_DateTimeRoundTrip ==
    (call.op = "roundtrip" /\ self.cls = "DateTime" /\ call.arg.t = "datetime")
        => res = Return(call.arg)

\* what a variant's validate does after the base step
TypeChecks(col, val, rnd) ==
    CASE col.cls = "Text" -> Text_checks(col, val)
      [] col.cls = "JSON" -> JSON_validate(col, val, rnd)
      [] col.cls = "Integer" -> Integer_checks(col, val)
      [] col.cls = "Float" -> Float_checks(col, val)
      [] col.cls \in {"UUID", "TimeUUID"} -> UUID_checks(col, val)
      [] col.cls = "Set" -> Set_checks(col, val, rnd)
      [] col.cls = "List" -> List_checks(col, val, rnd)
      [] col.cls = "Map" -> Map_checks(col, val, rnd)

ValidateOverriders == {"Text", "JSON", "Integer", "UUID", "TimeUUID", "Float",
                       "Set", "List", "Map"}

\* C3: every variant that overrides validate runs the base step first:
\* validate(None) raises ValidationError on a required column without a
\* default, and with a default it is the variant's own checks applied to
\* the resolved default.
C3_BaseStepFirst ==
    (call.op = "validate" /\ call.arg = None /\ self.cls \in ValidateOverriders)
        => /\ (self.default = None /\ bool(self.required))
                => (~res.ok /\ res.err = "ValidationError")
           /\ self.default # None
                => res = TypeChecks(self, get_default(self, call.rnd), call.rnd)

\* the elements of a list, tuple or set input, as a set
ElementsOf(x) == IF x.t = "set" THEN x.v ELSE {x.v[i] : i \in 1..Len(x.v)}

\* C9: Set.validate of a value other than None raises ValidationError unless
\* the value is a set (strict) or a set, list or tuple (not strict); it fails
\* when the element column rejects an element; otherwise it returns exactly
\* the set of the validated elements.
C9_SetValidate ==
    (call.op = "validate" /\ self.cls = "Set" /\ call.arg # None) =>
        LET shaped == \/ call.arg.t = "set"
                      \/ self.strict = PyBool(FALSE) /\ call.arg.t \in {"list", "tuple"}
        IN  IF ~shaped THEN ~res.ok /\ res.err = "ValidationError"
            ELSE LET outs == {ScalarValidate(self.value_col, e, call.rnd) :
                                 e \in ElementsOf(call.arg)}
                 IN  IF \E o \in outs : ~o.ok THEN ~res.ok
                     ELSE /\ res.ok
                          /\ res.val.t = "set"
                          /\ res.val.v = {o.val : o \in outs}
                          /\ Cardinality(res.val.v) <= Cardinality(ElementsOf(call.arg))

\* C9 witness: a non-strict Set of Integer validated a list whose two
\* different elements validate to the same integer, and returned one element.
C9_Witness ==
    /\ call.op = "validate"
    /\ self.cls = "Set"
    /\ self.value_type = "Integer"
    /\ self.strict = PyBool(FALSE)
    /\ call.arg = PyList(<<PyStr("1"), PyInt(1), PyInt(2)>>)
    /\ res = Return(PySet({PyInt(1), PyInt(2)}))

\* C10: for a List column and a list or tuple input, validate returns a
\* list of the same length whose i-th element is the element column's
\* validation of the i-th input element, to_database holds the i-th
\* element's storage conversion at position i, and the rendered text is
\* "[" and "]" around the quoted conversions in input order, joined by ", ".
C10_ListOrder ==
    (self.cls = "List" /\ call.arg.t \in {"list", "tuple"}) =>
        LET n == Len(call.arg.v)
            vs == [i \in 1..n |-> ScalarValidate(self.value_col, call.arg.v[i], call.rnd)]
            ds == [i \in 1..n |-> ScalarToDatabase(self.value_col, call.arg.v[i], call.rnd)]
        IN  /\ call.op = "validate" =>
                IF \A i \in 1..n : vs[i].ok
                  THEN /\ res.ok
                       /\ res.val.t = "list"
                       /\ Len(res.val.v) = n
                       /\ \A i \in 1..n : res.val.v[i] = vs[i].val
                  ELSE ~res.ok
            /\ call.op = "to_database" =>
                IF \A i \in 1..n : ds[i].ok
                  THEN /\ res.ok
                       /\ Len(res.val.v) = n
                       /\ \A i \in 1..n : res.val.v[i] = ds[i].val
                  ELSE ~res.ok
            /\ call.op = "str" =>
                /\ res.val.v = "[" \o Join([i \in 1..n |-> cql_quote(ds[i].val)], ", ")
                                   \o "]"
                /\ (self.value_type = "Integer"
                      /\ call.arg.v = <<PyInt(3), PyInt(1), PyInt(2)>>)
                        => res.val.v = "[3, 1, 2]"

\* C10 witness: List(Integer).to_database([3, 1, 2]) was rendered.
C10_Witness ==
    /\ call.op = "str"
    /\ self.cls = "List"
    /\ self.value_type = "Integer"
    /\ call.arg = PyList(<<PyInt(3), PyInt(1), PyInt(2)>>)
    /\ res = Return(PyStr("[3, 1, 2]"))

(***************************************************************************)
(* BaseValueManager (specification SpecManager).                           *)
(***************************************************************************)
ManagerValues == FewScalars \cup FewContainers

\* copy(value): a shallow copy, equal to its argument
copy(v) == v

\* a variant of the property that forgets the initial value
deleted_IgnoresInitial == value = None

\* BaseValueManager.deleted
deleted == value = None /\ initial_value # None

\* BaseValueManager.__init__(instance, column, v)
InitManager ==
    /\ \E v \in ManagerValues :
         /\ initial_value = copy(v)
         /\ value = v
         /\ ctor_value = v
    /\ instance_counter = 0
    /\ columns = <<>>
    /\ self = None
    /\ call = NoCall
    /\ res = NoResult
    /\ ThreadsIdle

\* BaseValueManager.getval
getval ==
    /\ call' = [op |-> "getval", arg |-> None, rnd |-> ""]
    /\ res' = Return(value)
    /\ UNCHANGED <<instance_counter, columns, self, initial_value, value,
                   ctor_value, pc, position, loaded>>

\* BaseValueManager.setval
setval ==
    /\ \E v \in ManagerValues :
         /\ value' = v
         /\ call' = [op |-> "setval", arg |-> v, rnd |-> ""]
    /\ res' = Return(None)
    /\ UNCHANGED <<instance_counter, columns, self, initial_value,
                   ctor_value, pc, position, loaded>>

\* BaseValueManager.delval
delval ==
    /\ value' = None
    /\ call' = [op |-> "delval", arg |-> None, rnd |-> ""]
    /\ res' = Return(None)
    /\ UNCHANGED <<instance_counter, columns, self, initial_value,
                   ctor_value, pc, position, loaded>>

\* reading the deleted property
ReadDeleted ==
    /\ call' = [op |-> "deleted", arg |-> None, rnd |-> ""]
    /\ res' = Return(PyBool(deleted))
    /\ UNCHANGED <<instance_counter, columns, self, initial_value, value,
                   ctor_value, pc, position, loaded>>

NextManager ==
    \/ getval
    \/ setval
    \/ delval
    \/ ReadDeleted

SpecManager == InitManager /\ [][NextManager]_vars

\* C5: after any sequence of getval, setval and delval the initial value is
\* still the one the manager was constructed with, and `deleted` reads true
\* exactly when the current value is None and the constructor's value was
\* not None; a manager constructed with None never reads deleted.
C5_Deleted ==
    /\ initial_value = ctor_value
    /\ call.op = "deleted" =>
         res = Return(PyBool(value = None /\ ctor_value # None))
    /\ (ctor_value = None /\ call.op = "deleted") => res = Return(PyBool(FALSE))

\* C5 witness: a manager constructed with a value, emptied by delval, was
\* read as deleted.
C5_Witness ==
    /\ ctor_value = PyInt(1)
    /\ value = None
    /\ call.op = "deleted"
    /\ res = Return(PyBool(TRUE))

(***************************************************************************)
(* Sequential construction of columns (specification Spec).                *)
(***************************************************************************)
\* the classes constructed, and the classes handed over as element types:
\* a concrete scalar, an abstract column, a container and a non-column
BuiltClasses == {"Column", "Counter", "Set", "List", "Map"}
ElementTypes == {"Integer", "Column", "Set", "int"}

BuiltArgs(cls) ==
    CASE cls \in {"Set", "List"} -> {<<e>> : e \in ElementTypes}
      [] cls = "Map" -> {<<k, e>> : k \in ElementTypes, e \in ElementTypes}
      [] OTHER -> {<<>>}

Init ==
    /\ instance_counter = 0
    /\ columns = <<>>
    /\ self = None
    /\ call = [op |-> "none", arg |-> None, rnd |-> "", cls |-> "", args |-> <<>>,
               before |-> 0]
    /\ res = NoResult
    /\ ManagerIdle
    /\ ThreadsIdle

\* cls(*args): every Column.__init__ that runs appends its object to
\* columns and advances the counter, whether the constructor then succeeds
\* or raises
Construct ==
    /\ instance_counter < MaxCounter
    /\ \E cls \in BuiltClasses :
         \E args \in BuiltArgs(cls) :
            \E b \in {New(cls, args, NoKwargs, instance_counter)} :
                /\ instance_counter' = CounterAfter(instance_counter, b.inits)
                /\ columns' = columns \o b.inits
                /\ self' = IF b.status = "ok" THEN b.obj ELSE self
                /\ call' = [op |-> "new", arg |-> None, rnd |-> "", cls |-> cls,
                            args |-> args, before |-> instance_counter]
                /\ res' = [ok |-> b.status = "ok", val |-> b.obj,
                           err |-> IF b.status = "ok" THEN "" ELSE b.status,
                           msg |-> b.msg]
    /\ UNCHANGED <<initial_value, value, ctor_value, pc, position, loaded>>

\* validate, to_database or to_python on the column constructed last: none
\* of them assigns to the column or to the counter
CallColumn ==
    /\ self # None
    /\ \E op \in {"validate", "to_database", "to_python"} :
         \E v \in FewScalars \cup {PySet({PyInt(1)}), PyList(<<PyInt(1)>>)} :
            /\ call' = [op |-> op, arg |-> v, rnd |-> "", cls |-> self.cls,
                        args |-> <<>>, before |-> instance_counter]
            /\ res' = CASE op = "validate" -> Validate(self, v, "")
                        [] op = "to_database" -> ToDatabase(self, v, "")
                        [] op = "to_python" -> ToPython(self, v, "")
    /\ UNCHANGED <<instance_counter, columns, self, initial_value, value,
                   ctor_value, pc, position, loaded>>

Next ==
    \/ Construct
    \/ CallColumn

Spec == Init /\ [][Next]_vars

\* C4: constructing a Set, List or Map with a container class as element,
\* value or key type raises the ValidationError for nested containers, and
\* a Map whose key type is no Column class raises the ValidationError for
\* "not a column class"; no such construction succeeds.
C4_NestedRejected ==
    (call.op = "new" /\ call.cls \in {"Set", "List", "Map"}) =>
        LET types == {call.args[i] : i \in 1..Len(call.args)}
        IN  /\ (types \cap ContainerClasses # {}) =>
                /\ ~res.ok
                /\ res.err = "ValidationError"
                /\ res.msg = "container types cannot be nested"
            /\ (call.cls = "Map" /\ types \cap ContainerClasses = {}
                  /\ call.args[1] \notin ColumnClasses) =>
                /\ ~res.ok
                /\ res.err = "ValidationError"

\* C6: the counter equals the number of descriptors initialised so far,
\* the i-th descriptor initialised holds declaration order i - 1 (so later
\* descriptors hold strictly greater, pairwise distinct orders), and the
\* element and key descriptors of a container precede the container.
C6_DeclarationOrder ==
    /\ instance_counter = Len(columns)
    /\ \A i \in 1..Len(columns) : columns[i].position = PyInt(i - 1)
    /\ \A i, j \in 1..Len(columns) :
         i < j => columns[i].position.v < columns[j].position.v
    /\ \A i \in 1..Len(columns) :
         /\ columns[i].value_col # None =>
              columns[i].value_col.position.v < columns[i].position.v
         /\ columns[i].key_col # None =>
              columns[i].key_col.position.v < columns[i].value_col.position.v

\* C6 witness: a Map was constructed after another descriptor; its key
\* column, value column and the Map itself hold orders 1, 2 and 3.
C6_Witness ==
    /\ call.op = "new"
    /\ res.ok
    /\ self.cls = "Map"
    /\ self.key_col.position = PyInt(1)
    /\ self.value_col.position = PyInt(2)
    /\ self.position = PyInt(3)
    /\ instance_counter = 4

\* C8: a call that fails leaves the counter and the set of initialised
\* descriptors as they were before the call.
C8_FailureLeavesNoEffect ==
    ~res.ok => /\ instance_counter = call.before
               /\ Len(columns) = call.before

(***************************************************************************)
(* Concurrent construction (specification SpecThreads).  Column.__init__   *)
(* reads the counter into self.position, then "+= 1" loads the counter and *)
(* stores the sum; a thread switch may fall between any two of the three.  *)
(***************************************************************************)
InitThreads ==
    /\ instance_counter = 0
    /\ columns = <<>>
    /\ self = None
    /\ call = NoCall
    /\ res = NoResult
    /\ ManagerIdle
    /\ pc = [t \in Threads |-> "idle"]
    /\ position = [t \in Threads |-> <<>>]
    /\ loaded = [t \in Threads |-> 0]

\* self.position = Column.instance_counter
AssignPosition(t) ==
    /\ pc[t] = "idle"
    /\ Len(position[t]) < MaxColsPerThread
    /\ position' = [position EXCEPT ![t] = Append(@, instance_counter)]
    /\ pc' = [pc EXCEPT ![t] = "load"]
    /\ UNCHANGED <<instance_counter, columns, self, call, res, initial_value,
                   value, ctor_value, loaded>>

\* Column.instance_counter += 1: the load
LoadCounter(t) ==
    /\ pc[t] = "load"
    /\ loaded' = [loaded EXCEPT ![t] = instance_counter]
    /\ pc' = [pc EXCEPT ![t] = "store"]
    /\ UNCHANGED <<instance_counter, columns, self, call, res, initial_value,
                   value, ctor_value, position>>

\* Column.instance_counter += 1: the store
StoreCounter(t) ==
    /\ pc[t] = "store"
    /\ instance_counter' = loaded[t] + 1
    /\ pc' = [pc EXCEPT ![t] = "idle"]
    /\ UNCHANGED <<columns, self, call, res, initial_value, value, ctor_value,
                   position, loaded>>

NextThreads ==
    \E t \in Threads :
        \/ AssignPosition(t)
        \/ LoadCounter(t)
        \/ StoreCounter(t)

SpecThreads == InitThreads /\ [][NextThreads]_vars

AllConstructed ==
    \A t \in Threads : pc[t] = "idle" /\ Len(position[t]) = MaxColsPerThread

\* C7: when all concurrent constructions have finished, the counter has
\* grown by the number of descriptors constructed and no two descriptors
\* hold the same declaration order.
C7_ConcurrentCounter ==
    AllConstructed =>
        /\ instance_counter = MaxThreads * MaxColsPerThread
        /\ \A t, u \in Threads :
             \A i \in 1..Len(position[t]), j \in 1..Len(position[u]) :
                (t # u \/ i # j) => position[t][i] # position[u][j]

====
